---- MODULE Spec2Model ----
(***************************************************************************)
(* Model of src/pages/index.tsx: the hover-to-preview audio controller of  *)
(* Track (play, stop, their interval and timeout callbacks, the callbacks  *)
(* of the play() promise) and the artist aggregates of Playlist.           *)
(*                                                                         *)
(* Volumes are integers in thousandths (1000 is volume 1, 50 is 0.05).     *)
(* A floating-point sum is the exact sum plus an error of at most one      *)
(* thousandth; Number(x.toFixed(2)) rounds it to the nearest hundredth.    *)
(*                                                                         *)
(* Time: the model has no clock.  Every setInterval of the page has period *)
(* 100 ms, and the action `elapse` divides a run into periods of that      *)
(* length.  A timer keeps the milliseconds it has `left` and is due when   *)
(* none are left.  An interval that ran is due again a period later, so it *)
(* runs at most once in a period, and not in the period in which it was    *)
(* created.  A timer that is due when a period ends stays due: a task kept *)
(* the event loop busy; the interval has lost a tick, which the browser    *)
(* does not make up for, and the timeout runs late.                        *)
(*                                                                         *)
(* The order in which the browser runs the callbacks that are due, and the *)
(* event handlers among them, is left open, with one exception.  stop()    *)
(* creates its fade-out interval just before its pause timeout, and a      *)
(* timer does not overtake one that was created before it and is due no    *)
(* later: a timeout of a whole number of periods runs after the tick of    *)
(* the interval that is due with it, a truncated one, due a millisecond    *)
(* before a tick, after the first tick of the interval.  A timeout of 0 ms *)
(* is due at once.                                                         *)
(***************************************************************************)
EXTENDS Integers, Sequences, FiniteSets, TLC

\* Audio elements created in a run of Spec, of SpecFade and of SpecNotify.
MaxAudio == 2
MaxFades == 2
MaxPromises == 3
\* Artist entries of a playlist in SpecPlaylist.
MaxEntries == 7

Step == 50
Full == 1000
Period == 100
TopCount == 5

VARIABLES tracks, audio, fadeIn, fadeOut, interactable, interactableNotified,
          elements, timers, toasts, prompts,
          rendered, artists, uniqueArtists, topArtists

(***************************************************************************)
(* tracks                the tracks prop of Playlist                       *)
(* audio, fadeIn, fadeOut, interactable                                    *)
(*                       the useState hooks of the Track of each track;    *)
(*                       0 is null, an element or a timer is named by the  *)
(*                       number of the Audio element it belongs to         *)
(* interactableNotified  the global state of that name                     *)
(* elements              the Audio elements created so far: volume, paused *)
(*                       flag, state of the promise of play(), and the     *)
(*                       interactableNotified its callbacks closed over    *)
(*                       (`notified`); `ticks` counts the runs of the      *)
(*                       fade-in interval while the element is current     *)
(* timers                the scheduled intervals and timeouts; `captured`  *)
(*                       is the fadeIn / fadeOut state the callback closed *)
(*                       over, `delay` the milliseconds given to           *)
(*                       setInterval or setTimeout, `left` those left      *)
(*                       until the timer is due, `fired` that the callback *)
(*                       has run, `idled` that it has run without changing *)
(*                       the volume                                        *)
(* toasts                the toasts shown so far                           *)
(* prompts               the prompt toasts shown since the page loaded     *)
(*                       or a play() last resolved                         *)
(* rendered, artists, uniqueArtists, topArtists                            *)
(*                       the aggregates of the rendered page               *)
(*                                                                         *)
(* A handler or callback sees the hook values of the render in which it    *)
(* was created: play and stop, called from events, see the current ones;   *)
(* the interval and promise callbacks keep those of the render in which    *)
(* play or stop ran.                                                       *)
(***************************************************************************)
vars == <<tracks, audio, fadeIn, fadeOut, interactable, interactableNotified,
          elements, timers, toasts, prompts,
          rendered, artists, uniqueArtists, topArtists>>

controllerVars == <<audio, fadeIn, fadeOut, interactable, interactableNotified,
                    elements, timers, toasts, prompts>>

playlistVars == <<rendered, artists, uniqueArtists, topArtists>>

----------------------------------------------------------------------------
(* Strings the code tests with String.includes are sequences of pieces.    *)

AutoplayNeedle == "user didn't interact with the document first"
PauseNeedle == "interrupted by a call to pause()"

NotAllowedMessage == <<"play() failed because the ", AutoplayNeedle, ".">>
AbortMessage == <<"The play() request was ", PauseNeedle, ".">>
NotSupportedMessage == <<"The element has no supported sources.">>

PromptText == <<"Please click anywhere on the page to preview tracks on hover.">>

\* The right single quotation mark, a character a TLA+ string cannot hold,
\* is a piece of its own, named by its code point.
RightQuote == "U+2019"
SuccessText == <<"Nice! You", RightQuote, "re good to go.">>

Includes(message, needle) == \E i \in DOMAIN message : message[i] = needle

\* A rejection value: an Error carrying a message, or a bare string.
ErrorsOf(messages) ==
    [isError : {TRUE}, message : messages] \cup [isError : {FALSE}, text : messages]

MessageOf(error) == IF error.isError THEN error.message ELSE error.text

----------------------------------------------------------------------------
(* Arithmetic of the fader.                                                *)

\* The error of a floating-point sum, in thousandths.
FloatError == {-1, 0, 1}

ToFixed2_Identity(x) == x
ToFixed2(x) == ((x + 5) \div 10) * 10

\* The fade-in callback raises the volume while it is below 1.
FadeInRises_Inclusive(v) == v <= Full
FadeInRises(v) == v < Full

FadeInVolume(v, err) == ToFixed2(v + Step + err)

\* The fade-out callback lowers the volume while it is above 0.
FadeOutFalls(v) == v > 0

FadeOutVolume(v, err) == ToFixed2(v - Step + err)

\* (originalVolume / 0.05) * 100 in IEEE doubles, truncated to the integer
\* number of milliseconds setTimeout takes: the quotient falls just short
\* of the whole number for 0.15, 0.3, 0.35, 0.6, 0.7 and 0.95.
PauseDelay(originalVolume) ==
    LET n == originalVolume \div Step
    IN  IF n \in {3, 6, 7, 12, 14, 19} THEN n * Period - 1 ELSE n * Period

----------------------------------------------------------------------------
(* Timers.                                                                 *)

\* setInterval(callback, delay), setTimeout(callback, delay): the timer of
\* element el, with the state its callback closed over.
Timer(kind, el, captured, delay) ==
    [kind |-> kind, el |-> el, captured |-> captured, delay |-> delay,
     left |-> delay, fired |-> FALSE, idled |-> FALSE]

SetInterval(q, kind, el, captured) == q \cup {Timer(kind, el, captured, Period)}

SetTimeout(q, el, delay) == q \cup {Timer("pause", el, 0, delay)}

\* clearInterval(id), guarded by `if (id)`: id 0 is null.
ClearInterval(q, kind, id) ==
    IF id = 0 THEN q ELSE {x \in q : ~(x.kind = kind /\ x.el = id)}

HasTimer(kind, e) == \E x \in timers : x.kind = kind /\ x.el = e

TimerOf(kind, e) == CHOOSE x \in timers : x.kind = kind /\ x.el = e

\* An interval whose callback has run is due again a period later.
Ran(x) == [x EXCEPT !.left = Period, !.fired = TRUE]

\* A timer the event loop may run.  The pause timeout of a stop() whose
\* fade-out interval is still scheduled waits for the tick of the interval
\* that is due no later than it: the tick of its own period if its delay
\* is a whole number of periods, the first tick if it is truncated.
IsDue(x) ==
    /\ x.left <= 0
    /\ x.kind = "pause" /\ x.delay >= Period /\ HasTimer("fadeOut", x.el) =>
          IF x.delay % Period = 0
              THEN TimerOf("fadeOut", x.el).left > 0
              ELSE TimerOf("fadeOut", x.el).fired

HasPreview(t) == tracks[t].preview_url # ""

Tracks == DOMAIN tracks

SampleTracks ==
    << [artists |-> <<"a", "b">>, preview_url |-> "https://p.scdn.co/mp3-preview/1"],
       [artists |-> <<"a">>, preview_url |-> "https://p.scdn.co/mp3-preview/2"],
       [artists |-> <<"c">>, preview_url |-> ""] >>

\* A playlist of which one track has a preview.
SoloTracks ==
    << [artists |-> <<"a", "b">>, preview_url |-> "https://p.scdn.co/mp3-preview/1"],
       [artists |-> <<"c">>, preview_url |-> ""] >>

----------------------------------------------------------------------------
(* Track: play, stop and their callbacks.                                  *)

\* play() on a track with a preview and no current element.  The interval
\* callback closes over the fadeIn of this render, the promise callbacks
\* over its interactableNotified.
playNew(t) ==
    LET e == Len(elements) + 1
    IN  /\ audio[t] = 0
        /\ HasPreview(t)
        /\ elements' = Append(elements,
               [track |-> t, volume |-> 0, paused |-> FALSE, promise |-> "pending",
                notified |-> interactableNotified, ticks |-> 0])
        /\ timers' = SetInterval(timers, "fadeIn", e, fadeIn[t])
        /\ fadeIn' = [fadeIn EXCEPT ![t] = e]
        /\ audio' = [audio EXCEPT ![t] = e]
        /\ UNCHANGED <<fadeOut, interactable, interactableNotified, toasts, prompts>>

playReturn(t) ==
    /\ audio[t] # 0 \/ ~HasPreview(t)
    /\ UNCHANGED controllerVars

play(t) == playNew(t) \/ playReturn(t)

\* stop() on a track with a current element.  The interval callback closes
\* over the fadeOut of this render.
stopCurrent(t) ==
    LET e == audio[t]
        originalVolume == elements[e].volume
    IN  /\ e # 0
        /\ audio' = [audio EXCEPT ![t] = 0]
        /\ timers' = SetTimeout(
                         SetInterval(ClearInterval(timers, "fadeIn", fadeIn[t]),
                                     "fadeOut", e, fadeOut[t]),
                         e, PauseDelay(originalVolume))
        /\ fadeOut' = [fadeOut EXCEPT ![t] = e]
        /\ elements' = [elements EXCEPT ![e].ticks = 0]
        /\ UNCHANGED <<fadeIn, interactable, interactableNotified, toasts, prompts>>

stopReturn(t) ==
    /\ audio[t] = 0
    /\ UNCHANGED controllerVars

stop(t) == stopCurrent(t) \/ stopReturn(t)

\* The callback of the interval created by play() for element e.
fadeInTick(e) ==
    /\ HasTimer("fadeIn", e)
    /\ IsDue(TimerOf("fadeIn", e))
    /\ LET h == TimerOf("fadeIn", e)
           ran == (timers \ {h}) \cup {Ran(h)}
           v == elements[e].volume
           n == IF elements[e].ticks <= Full \div Step THEN elements[e].ticks + 1
                ELSE elements[e].ticks
       IN  IF FadeInRises(v)
               THEN /\ \E err \in FloatError :
                          elements' = [elements EXCEPT ![e].volume = FadeInVolume(v, err),
                                                       ![e].ticks = n]
                    /\ timers' = ran
               ELSE /\ elements' = [elements EXCEPT ![e].ticks = n]
                    /\ timers' = ClearInterval(ran, "fadeIn", h.captured)
    /\ UNCHANGED <<audio, fadeIn, fadeOut, interactable, interactableNotified,
                   toasts, prompts>>

\* The callback of the interval created by stop() for element e.
fadeOutTick(e) ==
    /\ HasTimer("fadeOut", e)
    /\ IsDue(TimerOf("fadeOut", e))
    /\ LET h == TimerOf("fadeOut", e)
           v == elements[e].volume
       IN  IF FadeOutFalls(v)
               THEN /\ \E err \in FloatError :
                          elements' = [elements EXCEPT ![e].volume = FadeOutVolume(v, err)]
                    /\ timers' = (timers \ {h}) \cup {Ran(h)}
               ELSE /\ elements' = elements
                    /\ timers' = ClearInterval(
                                     (timers \ {h}) \cup {[Ran(h) EXCEPT !.idled = TRUE]},
                                     "fadeOut", h.captured)
    /\ UNCHANGED <<audio, fadeIn, fadeOut, interactable, interactableNotified,
                   toasts, prompts>>

\* The callback of the timeout created by stop() for element e:
\* audio.pause().
pauseTimeout(e) ==
    /\ HasTimer("pause", e)
    /\ IsDue(TimerOf("pause", e))
    /\ elements' = [elements EXCEPT ![e].paused = TRUE]
    /\ timers' = timers \ {TimerOf("pause", e)}
    /\ UNCHANGED <<audio, fadeIn, fadeOut, interactable, interactableNotified,
                   toasts, prompts>>

\* A period of 100 ms ends: a timer that was not yet due is 100 ms closer.
\* A timer that is due stays due: the interval has lost a tick, the
\* timeout runs late.
elapse ==
    /\ timers' = {IF x.left > 0 THEN [x EXCEPT !.left = @ - Period] ELSE x : x \in timers}
    /\ UNCHANGED <<audio, fadeIn, fadeOut, interactable, interactableNotified,
                   elements, toasts, prompts>>

Toast(kind, text) == [kind |-> kind, text |-> text]

\* newAudio.play().then(...).  The callback also runs after pause(), if the
\* media had started by then.
playThen(e) ==
    /\ e \in DOMAIN elements
    /\ elements[e].promise = "pending"
    /\ elements' = [elements EXCEPT ![e].promise = "resolved"]
    /\ interactable' = [interactable EXCEPT ![elements[e].track] = TRUE]
    /\ IF elements[e].notified
          THEN /\ interactableNotified' = FALSE
               /\ toasts' = Append(toasts, Toast("success", SuccessText))
          ELSE UNCHANGED <<interactableNotified, toasts>>
    /\ prompts' = 0
    /\ UNCHANGED <<audio, fadeIn, fadeOut, timers>>

\* The toasts the rejection handler shows and the flag it leaves, for a
\* rejection value and the interactableNotified its closure holds.
CatchPrompts(message, notified) ==
    Includes(message, AutoplayNeedle) /\ ~notified

CatchReports_Always(message) == ~Includes(message, AutoplayNeedle)
CatchReports(message) ==
    ~Includes(message, AutoplayNeedle) /\ ~Includes(message, PauseNeedle)

\* The rejections of a play() promise whose callbacks have not run: after
\* pause(), that of the interruption.
Rejections(e) ==
    IF elements[e].promise # "pending" THEN {}
    ELSE IF elements[e].paused THEN ErrorsOf({AbortMessage})
    ELSE ErrorsOf({NotAllowedMessage, NotSupportedMessage})

\* The state of a promise whose rejection has been handled: rejected by a
\* call to pause(), or for another reason.
Rejected(message) ==
    IF Includes(message, PauseNeedle) THEN "interrupted" ELSE "rejected"

\* newAudio.play().catch(...)
playCatch(e, error) ==
    LET message == MessageOf(error)
    IN  /\ e \in DOMAIN elements
        /\ error \in Rejections(e)
        /\ elements' = [elements EXCEPT ![e].promise = Rejected(message)]
        /\ IF CatchPrompts(message, elements[e].notified)
              THEN /\ toasts' = Append(toasts, Toast("blank", PromptText))
                   /\ interactableNotified' = TRUE
                   /\ prompts' = prompts + 1
              ELSE IF CatchReports(message)
              THEN /\ toasts' = Append(toasts, Toast("error", message))
                   /\ UNCHANGED <<interactableNotified, prompts>>
              ELSE UNCHANGED <<toasts, interactableNotified, prompts>>
        /\ UNCHANGED <<audio, fadeIn, fadeOut, interactable, timers>>

----------------------------------------------------------------------------
(* Playlist: the artist aggregates.                                        *)

\* artists.find(({ name }) => name === n): the index of the first entry
\* with that name, 0 if there is none.
Find(acc, n) ==
    LET hits == {i \in DOMAIN acc : acc[i].name = n}
    IN  IF hits = {} THEN 0 ELSE CHOOSE i \in hits : \A j \in hits : i <= j

\* The body of the inner forEach.
AddArtist_Unfiltered(acc, n) ==
    IF Find(acc, n) # 0 THEN [acc EXCEPT ![Find(acc, n)].count = @ + 1]
    ELSE Append(acc, [name |-> n, count |-> 1])
AddArtist(acc, n) ==
    IF Find(acc, n) # 0 THEN [acc EXCEPT ![Find(acc, n)].count = @ + 1]
    ELSE IF n # "" THEN Append(acc, [name |-> n, count |-> 1])
    ELSE acc

RECURSIVE AddArtists(_, _)
AddArtists(acc, names) ==
    IF names = <<>> THEN acc
    ELSE AddArtists(AddArtist(acc, Head(names)), Tail(names))

RECURSIVE CountArtists(_, _)
CountArtists(acc, ts) ==
    IF ts = <<>> THEN acc
    ELSE CountArtists(AddArtists(acc, Head(ts).artists), Tail(ts))

\* The comparator handed to sort.
Compare_Swapped(artist1, artist2) == IF artist1.count > artist2.count THEN 1 ELSE -1
Compare(artist1, artist2) == IF artist2.count > artist1.count THEN 1 ELSE -1

(* Array.prototype.sort as V8 runs it on an array shorter than 64: the     *)
(* leading run is found (and reversed if it descends under the             *)
(* comparator), then the rest is inserted by binary insertion.             *)
Reverse(a) == [i \in 1..Len(a) |-> a[Len(a) + 1 - i]]

RECURSIVE RunLength(_, _, _)
RunLength(a, idx, descending) ==
    IF idx > Len(a) THEN idx - 1
    ELSE LET order == Compare(a[idx], a[idx - 1])
         IN  IF (descending /\ order >= 0) \/ (~descending /\ order < 0)
                 THEN idx - 1
                 ELSE RunLength(a, idx + 1, descending)

CountAndMakeRun(a) ==
    LET descending == Compare(a[2], a[1]) < 0
        n == RunLength(a, 3, descending)
    IN  [run |-> n,
         array |-> IF descending
                       THEN Reverse(SubSeq(a, 1, n)) \o SubSeq(a, n + 1, Len(a))
                       ELSE a]

RECURSIVE InsertionPoint(_, _, _, _)
InsertionPoint(a, pivot, left, right) ==
    IF left < right
        THEN LET mid == left + (right - left) \div 2
             IN  IF Compare(pivot, a[mid]) < 0
                     THEN InsertionPoint(a, pivot, left, mid)
                     ELSE InsertionPoint(a, pivot, mid + 1, right)
        ELSE left

RECURSIVE BinaryInsertionSort(_, _)
BinaryInsertionSort(a, start) ==
    IF start > Len(a) THEN a
    ELSE LET pivot == a[start]
             left == InsertionPoint(a, pivot, 1, start)
         IN  BinaryInsertionSort(
                 SubSeq(a, 1, left - 1) \o <<pivot>> \o SubSeq(a, left, start - 1)
                     \o SubSeq(a, start + 1, Len(a)),
                 start + 1)

Sort(a) ==
    IF Len(a) < 2 THEN a
    ELSE BinaryInsertionSort(CountAndMakeRun(a).array, CountAndMakeRun(a).run + 1)

\* new Set(artists.map((artist) => artist.name))
UniqueArtists(counted) == {counted[i].name : i \in DOMAIN counted}

\* .slice(0, 5).map((artist) => artist.name)
TopArtists(sorted) ==
    [i \in 1..(IF Len(sorted) < TopCount THEN Len(sorted) ELSE TopCount) |-> sorted[i].name]

----------------------------------------------------------------------------

\* The state of the hooks of the Track of every track, as first rendered.
Mounted(ts) ==
    /\ audio = [t \in DOMAIN ts |-> 0]
    /\ fadeIn = [t \in DOMAIN ts |-> 0]
    /\ fadeOut = [t \in DOMAIN ts |-> 0]
    /\ interactable = [t \in DOMAIN ts |-> FALSE]
    /\ interactableNotified = FALSE
    /\ elements = <<>>
    /\ timers = {}
    /\ toasts = <<>>
    /\ prompts = 0

\* The aggregates Playlist computes from its props.
Aggregated(ts) ==
    /\ artists = Sort(CountArtists(<<>>, ts))
    /\ uniqueArtists = UniqueArtists(CountArtists(<<>>, ts))
    /\ topArtists = TopArtists(Sort(CountArtists(<<>>, ts)))

\* The page as rendered from the sample playlist.
Init ==
    /\ tracks = SampleTracks
    /\ rendered = TRUE
    /\ Aggregated(SampleTracks)
    /\ Mounted(SampleTracks)

AllErrors == ErrorsOf({NotAllowedMessage, NotSupportedMessage, AbortMessage})

Elements == DOMAIN elements

\* The controller leaves the page's props and aggregates alone.
frame == UNCHANGED <<tracks, playlistVars>>

\* onMouseOver, onFocus: the pointer or the focus enters a track.  At most
\* `limit` audio elements are created in a run.
onMouseOver(limit) ==
    /\ \E t \in Tracks :
          /\ audio[t] = 0 /\ HasPreview(t) => Len(elements) < limit
          /\ play(t)
    /\ frame

\* onMouseLeave, onBlur: the pointer or the focus leaves a track.
onMouseLeave == (\E t \in Tracks : stop(t)) /\ frame

FadeInInterval == (\E e \in Elements : fadeInTick(e)) /\ frame

FadeOutInterval == (\E e \in Elements : fadeOutTick(e)) /\ frame

PauseTimeout == (\E e \in Elements : pauseTimeout(e)) /\ frame

Elapse == elapse /\ frame

PlayResolved == (\E e \in Elements : playThen(e)) /\ frame

PlayRejected == (\E e \in Elements : \E error \in AllErrors : playCatch(e, error)) /\ frame

Next ==
    \/ onMouseOver(MaxAudio)
    \/ onMouseLeave
    \/ FadeInInterval
    \/ FadeOutInterval
    \/ PauseTimeout
    \/ Elapse
    \/ PlayResolved
    \/ PlayRejected

Spec == Init /\ [][Next]_vars

\* The page as rendered from a playlist with one preview.
InitFade ==
    /\ tracks = SoloTracks
    /\ rendered = TRUE
    /\ Aggregated(SoloTracks)
    /\ Mounted(SoloTracks)

\* The fader on that playlist: the runs of the page without the callbacks
\* of the play() promises, which leave the audio elements' volume and the
\* timers alone.
NextFade ==
    \/ onMouseOver(MaxFades)
    \/ onMouseLeave
    \/ FadeInInterval
    \/ FadeOutInterval
    \/ PauseTimeout
    \/ Elapse

SpecFade == InitFade /\ [][NextFade]_vars

\* The runs within the first period: no interval comes due, and the only
\* timer callbacks are timeouts of 0 ms.
NextNotify ==
    \/ onMouseOver(MaxPromises)
    \/ onMouseLeave
    \/ PauseTimeout
    \/ PlayResolved
    \/ PlayRejected

SpecNotify == Init /\ [][NextNotify]_vars

----------------------------------------------------------------------------
(* Properties of the controller.                                           *)

Stopped(e) == audio[elements[e].track] # e

Min(a, b) == IF a < b THEN a ELSE b

\* C1: an element on which stop() took effect keeps losing 0.05 per tick
\* until its volume is 0 (its fade-out interval stays scheduled while the
\* volume is above 0), and pause() is invoked on it only at volume 0.
C1_FadeOutThenPause ==
    \A e \in Elements :
        /\ Stopped(e) /\ elements[e].volume > 0 => HasTimer("fadeOut", e)
        /\ elements[e].paused => elements[e].volume = 0

\* C2: the current audio element of a track starts at volume 0, has gained
\* exactly 0.05 per run of its fade-in interval up to exactly 1, stays at 1
\* afterwards, and its fade-in interval stays scheduled.
C2_FadeInRamp ==
    \A t \in Tracks :
        audio[t] # 0 =>
            LET el == elements[audio[t]]
            IN  /\ HasTimer("fadeIn", audio[t])
                /\ el.volume = Min(el.ticks * Step, Full)

\* An element that has been at volume 1 for a tick of its fade-in interval.
C2_Witness ==
    \E t \in Tracks :
        /\ audio[t] # 0
        /\ elements[audio[t]].volume = Full
        /\ elements[audio[t]].ticks > Full \div Step

\* C3: the prompt toast is shown at most once between page load (or the
\* last success toast) and the next resolved play().
C3_PromptShownOnce == prompts <= 1

IsToast(i, kind) == toasts[i].kind = kind

\* C4: every success toast follows a prompt toast with no other success
\* toast in between.
C4_SuccessFollowsPrompt ==
    \A i \in DOMAIN toasts :
        IsToast(i, "success") =>
            \E j \in 1..(i - 1) :
                /\ IsToast(j, "blank")
                /\ \A k \in (j + 1)..(i - 1) : ~IsToast(k, "success")

\* C5: the rejection handler, given a rejection that is not the autoplay
\* one, shows one error toast with the rejection's message, or no toast if
\* the message is that of an interruption by pause(), and leaves the
\* track's audio, the timers, interactable and interactableNotified alone.
C5_ErrorToastOnly ==
    [][\A e \in Elements : \A error \in AllErrors :
          playCatch(e, error) /\ ~Includes(MessageOf(error), AutoplayNeedle) =>
              /\ toasts' = IF Includes(MessageOf(error), PauseNeedle)
                               THEN toasts
                               ELSE Append(toasts, Toast("error", MessageOf(error)))
              /\ UNCHANGED <<audio, fadeIn, fadeOut, timers, interactable,
                             interactableNotified>>]_vars

\* One play() was interrupted by pause() and one failed for another reason,
\* and the only toast is the error of the second.
C5_Witness ==
    /\ \E e \in Elements : elements[e].promise = "interrupted"
    /\ \E e \in Elements : elements[e].promise = "rejected"
    /\ toasts = <<Toast("error", NotSupportedMessage)>>

TrackOf(timer) == elements[timer.el].track

Quiescent(t) ==
    /\ audio[t] = 0
    /\ \E e \in Elements : elements[e].track = t
    /\ \A e \in Elements :
          elements[e].track = t => elements[e].paused /\ elements[e].volume = 0

\* C8: once the pointer has left a track and its audio is at volume 0 and
\* paused, no interval of the track goes on firing: none is scheduled that
\* has already run at volume 0.
C8_TimersDoNotLeak ==
    \A t \in Tracks :
        Quiescent(t) =>
            \A x \in timers : TrackOf(x) = t /\ x.kind # "pause" => ~x.idled

Levels == {k * Step : k \in 0..(Full \div Step)}

\* C9: every volume is a multiple of 0.05 within [0, 1], and no element
\* has a fade-in interval and a fade-out interval scheduled together.
C9_VolumeInRange ==
    \A e \in Elements :
        /\ elements[e].volume \in Levels
        /\ ~(HasTimer("fadeIn", e) /\ HasTimer("fadeOut", e))

\* One element is fading out and another is fading in, both in between.
C9_Witness ==
    \E e1, e2 \in Elements :
        /\ HasTimer("fadeOut", e1) /\ elements[e1].volume \in Levels \ {0, Full}
        /\ HasTimer("fadeIn", e2) /\ elements[e2].volume \in Levels \ {0, Full}

\* The class of the progress bar is the full-width one.
ProgressShown(t) == HasPreview(t) /\ audio[t] # 0 /\ interactable[t]

\* C10: the progress bar is shown only for a current audio element whose
\* own play() promise has resolved.
C10_ProgressReflectsPlayback ==
    \A t \in Tracks : ProgressShown(t) => elements[audio[t]].promise = "resolved"

----------------------------------------------------------------------------
(* The playlist page rendered from any playlist.                           *)

NameOrder == <<"a", "b", "c", "d", "e", "f", "g">>

Positions(ts) == UNION {{<<t, i>> : i \in DOMAIN ts[t].artists} : t \in DOMAIN ts}

NamesIn(ts) == {ts[p[1]].artists[p[2]] : p \in Positions(ts)} \ {""}

\* Names matter to the page only through equality and emptiness, so a
\* playlist introduces its names in the order of NameOrder.
NextNames(known) ==
    {""} \cup {NameOrder[i] : i \in 1..(IF known < Len(NameOrder) THEN known + 1
                                                                  ELSE Len(NameOrder))}

Known(names) == Cardinality({i \in DOMAIN NameOrder : NameOrder[i] \in names})

TrackOfArtists(list) == [artists |-> list, preview_url |-> ""]

InitPlaylist ==
    /\ tracks = <<>>
    /\ rendered = FALSE
    /\ artists = <<>>
    /\ uniqueArtists = {}
    /\ topArtists = <<>>
    /\ Mounted(<<>>)

\* getPlaylist yields one more track, by one artist.
getTrackSolo ==
    /\ ~rendered
    /\ Cardinality(Positions(tracks)) + 1 <= MaxEntries
    /\ \E n1 \in NextNames(Known(NamesIn(tracks))) :
          tracks' = Append(tracks, TrackOfArtists(<<n1>>))
    /\ UNCHANGED <<controllerVars, playlistVars>>

\* getPlaylist yields one more track, by two artists.
getTrackDuo ==
    /\ ~rendered
    /\ Cardinality(Positions(tracks)) + 2 <= MaxEntries
    /\ \E n1 \in NextNames(Known(NamesIn(tracks))) :
          \E n2 \in NextNames(Known(NamesIn(tracks) \cup {n1})) :
              tracks' = Append(tracks, TrackOfArtists(<<n1, n2>>))
    /\ UNCHANGED <<controllerVars, playlistVars>>

\* Playlist renders the page from the props getStaticProps returned.
Playlist ==
    /\ ~rendered
    /\ rendered' = TRUE
    /\ artists' = Sort(CountArtists(<<>>, tracks))
    /\ uniqueArtists' = UniqueArtists(CountArtists(<<>>, tracks))
    /\ topArtists' = TopArtists(Sort(CountArtists(<<>>, tracks)))
    /\ audio' = [t \in DOMAIN tracks |-> 0]
    /\ fadeIn' = [t \in DOMAIN tracks |-> 0]
    /\ fadeOut' = [t \in DOMAIN tracks |-> 0]
    /\ interactable' = [t \in DOMAIN tracks |-> FALSE]
    /\ UNCHANGED <<tracks, interactableNotified, elements, timers, toasts, prompts>>

NextPlaylist == getTrackSolo \/ getTrackDuo \/ Playlist

SpecPlaylist == InitPlaylist /\ [][NextPlaylist]_vars

Occurrences(n) ==
    Cardinality({p \in Positions(tracks) : tracks[p[1]].artists[p[2]] = n})

\* C6: the number of artists shown is the number of distinct non-empty
\* artist names of the tracks, every name is kept once with the number of
\* its occurrences, and the empty name is not kept.
C6_ArtistCount ==
    rendered =>
        /\ Cardinality(uniqueArtists) = Cardinality(NamesIn(tracks))
        /\ {artists[i].name : i \in DOMAIN artists} = NamesIn(tracks)
        /\ Len(artists) = Cardinality(NamesIn(tracks))
        /\ \A i \in DOMAIN artists : artists[i].count = Occurrences(artists[i].name)

\* A playlist with an unnamed artist and an artist of several tracks.
C6_Witness ==
    /\ rendered
    /\ Occurrences("") > 0
    /\ \E i \in DOMAIN artists : artists[i].count > 1
    /\ Cardinality(uniqueArtists) > 1

\* C7: the Featuring list holds min(5, distinct names) distinct names in
\* the order of non-increasing occurrences, and no name left out occurs
\* more often than a name of the list.
C7_TopArtists ==
    rendered =>
        /\ Len(topArtists) = Min(TopCount, Cardinality(NamesIn(tracks)))
        /\ \A i \in DOMAIN topArtists : topArtists[i] \in NamesIn(tracks)
        /\ \A i, j \in DOMAIN topArtists :
              /\ i # j => topArtists[i] # topArtists[j]
              /\ i < j => Occurrences(topArtists[i]) >= Occurrences(topArtists[j])
        /\ \A n \in NamesIn(tracks) \ {topArtists[i] : i \in DOMAIN topArtists} :
              \A i \in DOMAIN topArtists : Occurrences(n) <= Occurrences(topArtists[i])

\* More than five artists, with a tie across the cut and unequal counts.
C7_Witness ==
    /\ rendered
    /\ Len(artists) > TopCount
    /\ artists[TopCount].count = artists[TopCount + 1].count
    /\ artists[1].count > artists[TopCount].count
    /\ tracks[1].artists[1] # artists[1].name

====
